---- MODULE Spec2Model ----
(***************************************************************************)
(* A model of make_meta_yml.py: the pipeline that resolves the latest      *)
(* release of a GitHub repository, downloads and extracts its archive,     *)
(* infers license, requirements and package metadata, validates the        *)
(* maintainers and URLs and renders a conda recipe.                        *)
(*                                                                         *)
(* Text (file contents, file names, tags, versions, handles, exception     *)
(* messages) is a sequence of one-character strings, so that str.count,    *)
(* str.lower, "in" and str.splitlines are computed character by character. *)
(* URLs handed to validate_urls are opaque strings: the code only tests    *)
(* them for emptiness.                                                     *)
(***************************************************************************)
EXTENDS Integers, Sequences, FiniteSets, TLC

VARIABLES
    pc,                \* position of the process in cli() / make_meta_yaml()
    argv,              \* parsed command line: maintainers, doc_url
    tag_name,          \* make_meta_yaml local (line 199)
    response,          \* make_meta_yaml local (line 200)
    tree,              \* the files under extracted_repo.name (line 201)
    tmpdir,            \* the temporary directory on disk: absent / ondisk / deleted
    cwd,               \* os.getcwd() of the process
    sys_path,          \* sys.path of the process
    repo_license,      \* make_meta_yaml locals (line 203)
    license_filename,
    requirements,      \* make_meta_yaml local (line 204)
    distribution_info, \* make_meta_yaml local (line 205)
    exc,               \* the exception propagating out of make_meta_yaml, if any
    requests_log,      \* every requests.get issued, in order
    warnings_log,      \* every warnings.warn issued, in order
    trace,             \* the stages started so far, each with its outcome
    result,            \* the value make_meta_yaml returned
    stdout,            \* what cli() wrote to sys.stdout
    exit_code,         \* exit status of the process once it has ended
    call,              \* a direct call of one function: its name and arguments
    ret                \* what that call returned or raised

vars == <<pc, argv, tag_name, response, tree, tmpdir, cwd, sys_path, repo_license,
          license_filename, requirements, distribution_info, exc, requests_log,
          warnings_log, trace, result, stdout, exit_code, call, ret>>

pipeline_vars == <<pc, argv, tag_name, response, tree, tmpdir, cwd, sys_path,
                   repo_license, license_filename, requirements, distribution_info,
                   exc, requests_log, warnings_log, trace, result, stdout, exit_code>>

(***************************************************************************)
(* Bounds of the model.                                                    *)
(***************************************************************************)
MaxWords == 3          \* words in a generated license text
MaxReqLen == 4         \* characters in a generated requirements file
MaxMaintainers == 2    \* handles in a generated maintainer list
MaxUrls == 3           \* entries in a generated URL list

(***************************************************************************)
(* Text.                                                                   *)
(***************************************************************************)
None == <<"None">>     \* Python's None where a text is expected

UpperToLower ==
    [A |-> "a", B |-> "b", C |-> "c", D |-> "d", E |-> "e", F |-> "f", G |-> "g",
     H |-> "h", I |-> "i", J |-> "j", K |-> "k", L |-> "l", M |-> "m", N |-> "n",
     O |-> "o", P |-> "p", Q |-> "q", R |-> "r", S |-> "s", T |-> "t", U |-> "u",
     V |-> "v", W |-> "w", X |-> "x", Y |-> "y", Z |-> "z"]

\* str.lower()
Lower(s) ==
    [i \in 1..Len(s) |-> IF s[i] \in DOMAIN UpperToLower THEN UpperToLower[s[i]] ELSE s[i]]

\* s[i:].startswith(sub)
MatchAt(sub, s, i) ==
    /\ i + Len(sub) - 1 <= Len(s)
    /\ \A k \in 1..Len(sub) : s[i + k - 1] = sub[k]

\* sub in s
Contains(sub, s) == \E i \in 1..(Len(s) - Len(sub) + 1) : MatchAt(sub, s, i)

RECURSIVE CountFrom(_, _, _)
CountFrom(sub, s, i) ==
    IF i + Len(sub) - 1 > Len(s) THEN 0
    ELSE IF MatchAt(sub, s, i) THEN 1 + CountFrom(sub, s, i + Len(sub))
    ELSE CountFrom(sub, s, i + 1)

\* s.count(sub): non-overlapping occurrences, left to right (sub is never empty here)
Count(sub, s) == CountFrom(sub, s, 1)

RECURSIVE Concat(_)
Concat(ss) == IF ss = << >> THEN << >> ELSE Head(ss) \o Concat(Tail(ss))

RECURSIVE SeqsUpTo(_, _)
\* every sequence over S of length at most n
SeqsUpTo(S, n) ==
    IF n = 0 THEN {<< >>}
    ELSE LET shorter == SeqsUpTo(S, n - 1)
         IN  shorter \cup {Append(q, x) : q \in shorter, x \in S}

(***************************************************************************)
(* Exceptions.                                                             *)
(***************************************************************************)
NoExc == [type |-> "None"]
Raised(e) == e.type # "None"

(***************************************************************************)
(* The extracted tree: what os.walk yields, top-down, as a sequence of     *)
(* directories, each with its files in listing order.  A file is a name    *)
(* and its text.                                                           *)
(***************************************************************************)
File(name, text) == [name |-> name, text |-> text]
Dir(root, files) == [root |-> root, files |-> files]

\* [filename for filename in files if key in filename.lower()]
Potential(files, key) == SelectSeq(files, LAMBDA f : Contains(key, Lower(f.name)))

RECURSIVE WalkFrom(_, _, _)
\* for root, _, files in os.walk(path): ... break / else: not found
WalkFrom(walk, key, i) ==
    IF i > Len(walk) THEN [found |-> FALSE]
    ELSE LET potential == Potential(walk[i].files, key)
         IN  IF Len(potential) > 0
             THEN [found |-> TRUE, root |-> walk[i].root, file |-> potential[1]]
             ELSE WalkFrom(walk, key, i + 1)

FindFirst(walk, key) == WalkFrom(walk, key, 1)

(***************************************************************************)
(* parse_license                                                           *)
(***************************************************************************)
LicenseKeys == <<"MIT", "Apache-2.0", "GPL-2.0-or-later", "BSD-3-Clause">>

\* licenses = {...}: the four counts, in insertion order
LicenseCounts(content) ==
    <<Count(<<"M","I","T">>, content),
      Count(<<"a","p","a","c","h","e">>, Lower(content)),
      Count(<<"G","N","U">>, content),
      Count(<<"b","s","d"," ","3">>, Lower(content))>>

RECURSIVE MaxFrom(_, _, _)
MaxFrom(counts, best, i) ==
    IF i > Len(counts) THEN best
    ELSE MaxFrom(counts, IF counts[i] > counts[best] THEN i ELSE best, i + 1)

RECURSIVE MaxLastFrom(_, _, _)
\* a max that keeps the last of several equal maxima
MaxLastFrom(counts, best, i) ==
    IF i > Len(counts) THEN best
    ELSE MaxLastFrom(counts, IF counts[i] >= counts[best] THEN i ELSE best, i + 1)

MostLikelyLast(counts) == LicenseKeys[MaxLastFrom(counts, 1, 2)]

\* max(licenses, key=lambda key: licenses[key]): the first key with the largest count
MostLikely(counts) == LicenseKeys[MaxFrom(counts, 1, 2)]

LicenseNotFound == [type |-> "ValueError", msg |-> "Could not find license file."]
LicenseNoKeywords(path) ==
    [type |-> "ValueError", msg |-> "Could not find a license in", path |-> path,
     looked_for |-> LicenseKeys]

\* a buggy parse_license that never checks whether any keyword was found
parse_license_unchecked(walk) ==
    LET hit == FindFirst(walk, <<"l","i","c","e","n","s","e">>)
    IN  IF ~hit.found THEN [exc |-> LicenseNotFound]
        ELSE [exc |-> NoExc,
              value |-> <<MostLikely(LicenseCounts(hit.file.text)), hit.file.name>>]

parse_license(walk) ==
    LET hit == FindFirst(walk, <<"l","i","c","e","n","s","e">>)
    IN  IF ~hit.found THEN [exc |-> LicenseNotFound]
        ELSE LET counts == LicenseCounts(hit.file.text)
             IN  IF counts[1] + counts[2] + counts[3] + counts[4] = 0
                 THEN [exc |-> LicenseNoKeywords(<<hit.root, hit.file.name>>)]
                 ELSE [exc |-> NoExc,
                       value |-> <<MostLikely(counts), hit.file.name>>]

(***************************************************************************)
(* get_requirements                                                        *)
(***************************************************************************)
RECURSIVE SplitFrom(_, _, _)
\* str.splitlines() on text whose only line boundary is "\n" (the file is opened
\* in text mode): a trailing newline does not open another line
SplitFrom(s, i, line) ==
    IF i > Len(s) THEN (IF line = << >> THEN << >> ELSE <<line>>)
    ELSE IF s[i] = "\n" THEN <<line>> \o SplitFrom(s, i + 1, << >>)
    ELSE SplitFrom(s, i + 1, Append(line, s[i]))

\* a buggy reader that drops blank lines
SplitLinesNoBlank(s) == SelectSeq(SplitFrom(s, 1, << >>), LAMBDA l : l # << >>)

SplitLines(s) == SplitFrom(s, 1, << >>)

RequirementsNotFound == [type |-> "ValueError", msg |-> "Could not find requirements file."]

get_requirements(walk) ==
    LET hit == FindFirst(walk, <<"r","e","q","u","i","r","e","m","e","n","t","s">>)
    IN  IF ~hit.found THEN [exc |-> RequirementsNotFound]
        ELSE [exc |-> NoExc, value |-> SplitLines(hit.file.text)]

(***************************************************************************)
(* parse_setup_py                                                          *)
(***************************************************************************)
\* a setup file carries what run_setup(filepath, stop_after="config") makes of it
SetupFile(name, dist) == [name |-> name, text |-> << >>, dist |-> dist]
Distribution(name, version, url, description) ==
    [raises |-> FALSE, name |-> name, version |-> version, url |-> url,
     description |-> description]
Malformed == [raises |-> TRUE]

SetupNotFound == [type |-> "ValueError", msg |-> "Could not find setup.py file."]
SetupError == [type |-> "SetupError", msg |-> "run_setup failed"]

\* setuptools.distutils.core.run_setup: a file that is no build description fails too
run_setup(file) ==
    IF "dist" \in DOMAIN file THEN file.dist ELSE Malformed

\* The call made with working directory dir and module search path path: what it
\* returns or raises, and the working directory and search path it leaves behind.
parse_setup_py(walk, dir, path) ==
    LET hit == FindFirst(walk, <<"s","e","t","u","p">>)
    IN  IF ~hit.found
        THEN [exc |-> SetupNotFound, cwd |-> dir, sys_path |-> path]
        ELSE LET distribution == run_setup(hit.file)
             IN  IF distribution.raises
                 \* run_setup raised after os.chdir: line 143 is not reached
                 THEN [exc |-> SetupError, cwd |-> hit.root,
                       sys_path |-> <<hit.root>> \o path]
                 ELSE [exc |-> NoExc, value |-> distribution, cwd |-> dir,
                       sys_path |-> <<hit.root>> \o path]

(***************************************************************************)
(* validate_maintainers                                                    *)
(***************************************************************************)
Digit == <<"0", "1", "2", "3", "4", "5", "6", "7", "8", "9">>

RECURSIVE Digits(_)
\* str(n) for n >= 0
Digits(n) == IF n < 10 THEN <<Digit[n + 1]>> ELSE Digits(n \div 10) \o <<Digit[(n % 10) + 1]>>

Reason(status) ==
    CASE status = 403 -> <<"F","o","r","b","i","d","d","e","n">>
      [] status = 404 -> <<"N","o","t"," ","F","o","u","n","d">>
      [] status = 500 -> <<"I","n","t","e","r","n","a","l"," ","S","e","r","v","e","r"," ","E","r","r","o","r">>
      [] OTHER -> <<"E","r","r","o","r">>

UserUrl(maintainer) == <<"h","t","t","p","s",":","/","/","a","p","i",".","g","i","t","h","u","b",".","c","o","m","/","u","s","e","r","s","/">> \o maintainer

\* str() of the HTTPError that Response.raise_for_status raises
HTTPErrorStr(status, url) ==
    Digits(status)
    \o (IF status < 500 THEN <<" ","C","l","i","e","n","t"," ","E","r","r","o","r",":"," ">> ELSE <<" ","S","e","r","v","e","r"," ","E","r","r","o","r",":"," ">>)
    \o Reason(status) \o <<" ","f","o","r"," ","u","r","l",":"," ">> \o url

HTTPError(status, url) ==
    [type |-> "HTTPError", status |-> status, str |-> HTTPErrorStr(status, url)]
ConnectionError == [type |-> "ConnectionError", msg |-> "no response"]
MaintainerNotFound(maintainer) ==
    [type |-> "ValueError", msg |-> "could not be found as a GitHub user",
     maintainer |-> maintainer]

\* Response.raise_for_status raises for 400 <= status < 600
IsErrorStatus(status) == 400 <= status /\ status < 600

UserRequest(maintainer) == [to |-> "users", arg |-> maintainer]

\* the test of line 171
Is404(exception) == Contains(<<"4","0","4">>, exception.str)

RECURSIVE MaintainersFrom(_, _, _, _)
\* statuses[i] is what the user lookup of maintainers[i] answers; 0 stands for no
\* HTTP response at all (requests.get raises a ConnectionError)
MaintainersFrom(maintainers, statuses, i, reqs) ==
    IF i > Len(maintainers) THEN [exc |-> NoExc, requests |-> reqs]
    ELSE LET maintainer == maintainers[i]
             sent == Append(reqs, UserRequest(maintainer))
             exception == HTTPError(statuses[i], UserUrl(maintainer))
         IN  IF statuses[i] = 0 THEN [exc |-> ConnectionError, requests |-> sent]
             ELSE IF IsErrorStatus(statuses[i])
             THEN IF Is404(exception)
                  THEN [exc |-> MaintainerNotFound(maintainer), requests |-> sent]
                  ELSE [exc |-> exception, requests |-> sent]
             ELSE MaintainersFrom(maintainers, statuses, i + 1, sent)

validate_maintainers(maintainers, statuses) ==
    MaintainersFrom(maintainers, statuses, 1, << >>)

(***************************************************************************)
(* validate_urls                                                           *)
(***************************************************************************)
UrlRequest(url) == [to |-> "url", arg |-> url]
UrlError(url, status) ==
    [type |-> "ValueError", msg |-> "returned non-200 status code", url |-> url,
     status |-> status]

\* a buggy test that accepts every 2xx status
BadStatusNot2xx(status) == status < 200 \/ status >= 300

\* the test of line 183
BadStatus(status) == status # 200

RECURSIVE UrlsFrom(_, _, _, _)
\* statuses[i] is what a GET of urls[i] answers; 0 stands for no HTTP response
UrlsFrom(urls, statuses, i, reqs) ==
    IF i > Len(urls) THEN [exc |-> NoExc, requests |-> reqs]
    ELSE IF urls[i] = "" THEN UrlsFrom(urls, statuses, i + 1, reqs)
    ELSE LET sent == Append(reqs, UrlRequest(urls[i]))
         IN  IF statuses[i] = 0 THEN [exc |-> ConnectionError, requests |-> sent]
             ELSE IF BadStatus(statuses[i])
             THEN [exc |-> UrlError(urls[i], statuses[i]), requests |-> sent]
             ELSE UrlsFrom(urls, statuses, i + 1, sent)

validate_urls(urls, statuses) == UrlsFrom(urls, statuses, 1, << >>)

(***************************************************************************)
(* The manifest of make_meta_yaml: the preamble and the meta mapping that  *)
(* yaml.dump serialises (key order as written).                            *)
(***************************************************************************)
GithubUrl == "https://github.com/user/repo"

\* meta["requirements"]
RequirementsSection(reqs) ==
    [host |-> <<<<"p","y","t","h","o","n">>, <<"p","i","p">>>> \o reqs,
     run |-> <<<<"p","y","t","h","o","n">>>> \o reqs]

\* a buggy test that compares for equality
VersionNotEqual(version, tag) == version # tag

\* whether line 216 warns
VersionMismatch(version, tag) == ~Contains(version, tag)

Manifest(tag, content, license, licfile, reqs, dist, maintainers, doc_url) ==
    [preamble |-> [name |-> dist.name, version |-> dist.version],
     meta |-> [package |-> [name |-> "{{ name | lower }}", version |-> "{{ version }}"],
               source |-> [url |-> [archive_of_tag |-> tag],
                           sha256 |-> [sha256_of |-> content]],
               build |-> [number |-> 0, script |-> "{{ PYTHON }} -m pip install . -vv"],
               requirements |-> RequirementsSection(reqs),
               test |-> [imports |-> <<dist.name>>],
               about |-> [home |-> dist.url, license |-> license,
                          license_file |-> licfile, summary |-> dist.description,
                          doc_url |-> doc_url, dev_url |-> GithubUrl],
               extra |-> [recipe_maintainers |-> maintainers]]]

(***************************************************************************)
(* The world of one run: command lines, release answers and archives.      *)
(***************************************************************************)
Tags == {<<"v","1",".","2",".","0">>, <<"v","1",".","1",".","0">>}

\* the JSON body of the "latest release" answer; "none" stands for no answer at all
ReleaseBodies ==
    {[tag_name |-> t] : t \in Tags} \cup {[message |-> <<"N","o","t"," ","F","o","u","n","d">>], [none |-> TRUE]}

CommandLines ==
    {[maintainers |-> m, doc_url |-> d] :
        m \in {<<<<"b","o","b">>>>, <<<<"b","o","b">>, <<"u","4","0","4">>>>},
        d \in {"", "https://docs.example.com"}}

InitialDir == "/home/user"
TmpRoot == "/tmp/tmpabc"
PkgRoot == "/tmp/tmpabc/repo-1.2.0"
DocsRoot == "/tmp/tmpabc/repo-1.2.0/docs"

MitText == <<"M","I","T"," ","L","i","c","e","n","s","e">>
ReqText == <<"r","e","q","u","e","s","t","s",">","=","2",".","0","\n","p","y","y","a","m","l">>
ReqFile == File(<<"r","e","q","u","i","r","e","m","e","n","t","s",".","t","x","t">>, ReqText)
LicFile == File(<<"L","I","C","E","N","S","E">>, MitText)
ReadMe == File(<<"R","E","A","D","M","E",".","m","d">>, <<"G","N","U"," ","a","p","a","c","h","e">>)
Sample(version, url) ==
    SetupFile(<<"s","e","t","u","p",".","p","y">>, Distribution(<<"s","a","m","p","l","e","p","k","g">>, version, url, "A sample package"))

ArchiveNames ==
    {"good", "old_version", "no_home", "no_license", "no_keywords", "no_requirements",
     "no_setup", "bad_setup", "nested", "corrupt"}

\* the tree a (readable) archive extracts to, as os.walk lists it
Archive(name) ==
    CASE name = "good" ->
           <<Dir(TmpRoot, << >>),
             Dir(PkgRoot, <<ReadMe, LicFile, ReqFile,
                            Sample(<<"1",".","2",".","0">>, "https://example.com")>>)>>
      [] name = "old_version" ->
           <<Dir(TmpRoot, << >>),
             Dir(PkgRoot, <<LicFile, ReqFile, Sample(<<"1",".","1",".","0">>, "https://example.com")>>)>>
      [] name = "no_home" ->
           <<Dir(TmpRoot, << >>),
             Dir(PkgRoot, <<LicFile, ReqFile, Sample(<<"1",".","2",".","0">>, "")>>)>>
      [] name = "no_license" ->
           <<Dir(TmpRoot, << >>),
             Dir(PkgRoot, <<ReadMe, ReqFile, Sample(<<"1",".","2",".","0">>, "https://example.com")>>)>>
      [] name = "no_keywords" ->
           <<Dir(TmpRoot, << >>),
             Dir(PkgRoot, <<File(<<"L","I","C","E","N","S","E">>, <<"A","l","l"," ","r","i","g","h","t","s"," ","r","e","s","e","r","v","e","d">>), ReqFile,
                            Sample(<<"1",".","2",".","0">>, "https://example.com")>>)>>
      [] name = "no_requirements" ->
           <<Dir(TmpRoot, << >>),
             Dir(PkgRoot, <<LicFile, Sample(<<"1",".","2",".","0">>, "https://example.com")>>)>>
      [] name = "no_setup" ->
           <<Dir(TmpRoot, << >>), Dir(PkgRoot, <<LicFile, ReqFile>>)>>
      [] name = "bad_setup" ->
           <<Dir(TmpRoot, << >>),
             Dir(PkgRoot, <<LicFile, ReqFile, SetupFile(<<"s","e","t","u","p",".","p","y">>, Malformed)>>)>>
      [] name = "nested" ->
           <<Dir(TmpRoot, << >>),
             Dir(PkgRoot, <<ReadMe, Sample(<<"1",".","2",".","0">>, "https://example.com")>>),
             Dir(DocsRoot, <<File(<<"L","i","c","e","n","s","e",".","t","x","t">>, <<"A","p","a","c","h","e"," ","L","i","c","e","n","s","e">>),
                             File(<<"r","e","q","u","i","r","e","m","e","n","t","s",".","t","x","t">>, <<"s","p","h","i","n","x","\n","\n">>)>>)>>
      [] OTHER -> << >>

\* tarfile.open(..., mode="r:gz") raises on bytes that are no gzip-compressed tar
Readable(name) == name # "corrupt"

ReadError == [type |-> "ReadError", msg |-> "not a gzip file"]
KeyError == [type |-> "KeyError", msg |-> "tag_name"]

\* response.json()["tag_name"]
get_latest_release(body) ==
    IF "none" \in DOMAIN body THEN [exc |-> ConnectionError]
    ELSE IF "tag_name" \in DOMAIN body THEN [exc |-> NoExc, value |-> body.tag_name]
    ELSE [exc |-> KeyError]

ArchiveUrl(tag) ==
    <<"h","t","t","p","s",":","/","/","g","i","t","h","u","b",".","c","o","m","/","u","s","e","r","/","r","e","p","o","/","a","r","c","h","i","v","e","/","r","e","f","s","/","t","a","g","s","/">> \o tag \o <<".","t","a","r",".","g","z">>

ArchiveRequest(tag) == [to |-> "archive", arg |-> tag]

\* a download that asks a second time when the first answer is an error
download_tar_gz_retry(tag, status, content) ==
    IF status = 0
    THEN [exc |-> ConnectionError, requests |-> <<ArchiveRequest(tag), ArchiveRequest(tag)>>]
    ELSE IF IsErrorStatus(status)
    THEN [exc |-> HTTPError(status, ArchiveUrl(tag)),
          requests |-> <<ArchiveRequest(tag), ArchiveRequest(tag)>>]
    ELSE [exc |-> NoExc, value |-> [status_code |-> status, content |-> content],
          requests |-> <<ArchiveRequest(tag)>>]

\* requests.get(url, allow_redirects=True); response.raise_for_status()
download_tar_gz(tag, status, content) ==
    IF status = 0 THEN [exc |-> ConnectionError, requests |-> <<ArchiveRequest(tag)>>]
    ELSE IF IsErrorStatus(status)
    THEN [exc |-> HTTPError(status, ArchiveUrl(tag)), requests |-> <<ArchiveRequest(tag)>>]
    ELSE [exc |-> NoExc, value |-> [status_code |-> status, content |-> content],
          requests |-> <<ArchiveRequest(tag)>>]

\* a directory made with tempfile.mkdtemp has no finalizer
FinalizeNothing(dir) == dir

\* What becomes of the temporary directory when its TemporaryDirectory object is
\* finalized (weakref.finalize: when the object is collected, at the latest when the
\* interpreter exits).
Finalize(dir) == IF dir = "ondisk" THEN "deleted" ELSE dir

(***************************************************************************)
(* The run of cli(): one action per stage of make_meta_yaml.               *)
(***************************************************************************)
StageOrder ==
    <<"get_latest_release", "download_tar_gz", "extract_tar_gz", "parse_license",
      "get_requirements", "parse_setup_py", "validate_maintainers", "validate_urls",
      "render">>

NoDistribution == [raises |-> TRUE]
NoResponse == [status_code |-> 0, content |-> "none"]
NotReturned == [returned |-> FALSE]
NotWritten == [written |-> FALSE]
NoCall == [fn |-> "none"]
NoRet == [done |-> FALSE]

Init ==
    /\ pc = "start"
    /\ argv \in CommandLines
    /\ tag_name = None
    /\ response = NoResponse
    /\ tree = << >>
    /\ tmpdir = "absent"
    /\ cwd = InitialDir
    /\ sys_path = <<"site-packages">>
    /\ repo_license = "None"
    /\ license_filename = None
    /\ requirements = << >>
    /\ distribution_info = NoDistribution
    /\ exc = NoExc
    /\ requests_log = << >>
    /\ warnings_log = << >>
    /\ trace = << >>
    /\ result = NotReturned
    /\ stdout = NotWritten
    /\ exit_code = "running"
    /\ call = NoCall
    /\ ret = NoRet

Started(stage, ok) == Append(trace, [stage |-> stage, ok |-> ok])

\* a make_meta_yaml that catches the exception of a stage and carries on
AfterStageSwallow(e, next) == next

\* No stage is called inside a try block: an exception of a stage leaves
\* make_meta_yaml and cli at once, otherwise the next line runs.
AfterStage(e, next) == IF Raised(e) THEN "raised" ELSE next

\* line 199
GetLatestRelease ==
    /\ pc = "start"
    /\ \E body \in ReleaseBodies :
         LET r == get_latest_release(body)
         IN  /\ requests_log' = Append(requests_log, [to |-> "releases/latest"])
             /\ trace' = Started("get_latest_release", ~Raised(r.exc))
             /\ exc' = r.exc
             /\ pc' = AfterStage(r.exc, "resolved")
             /\ IF Raised(r.exc) THEN UNCHANGED tag_name ELSE tag_name' = r.value
    /\ UNCHANGED <<argv, response, tree, tmpdir, cwd, sys_path, repo_license,
                   license_filename, requirements, distribution_info, warnings_log,
                   result, stdout, exit_code, call, ret>>

\* line 200
DownloadTarGz ==
    /\ pc = "resolved"
    /\ \E status \in {0, 200, 404, 500}, content \in ArchiveNames :
         LET r == download_tar_gz(tag_name, status, content)
         IN  /\ requests_log' = requests_log \o r.requests
             /\ trace' = Started("download_tar_gz", ~Raised(r.exc))
             /\ exc' = r.exc
             /\ pc' = AfterStage(r.exc, "downloaded")
             /\ IF Raised(r.exc) THEN UNCHANGED response ELSE response' = r.value
    /\ UNCHANGED <<argv, tag_name, tree, tmpdir, cwd, sys_path, repo_license,
                   license_filename, requirements, distribution_info, warnings_log,
                   result, stdout, exit_code, call, ret>>

\* line 201: the directory is created before the archive is opened
ExtractTarGz ==
    /\ pc = "downloaded"
    /\ tmpdir' = "ondisk"
    /\ trace' = Started("extract_tar_gz", Readable(response.content))
    /\ exc' = IF Readable(response.content) THEN NoExc ELSE ReadError
    /\ pc' = AfterStage(exc', "extracted")
    /\ IF Readable(response.content)
       THEN tree' = Archive(response.content)
       ELSE UNCHANGED tree
    /\ UNCHANGED <<argv, tag_name, response, cwd, sys_path, repo_license,
                   license_filename, requirements, distribution_info, requests_log,
                   warnings_log, result, stdout, exit_code, call, ret>>

\* line 203
ParseLicense ==
    /\ pc = "extracted"
    /\ LET r == parse_license(tree)
       IN  /\ trace' = Started("parse_license", ~Raised(r.exc))
           /\ exc' = r.exc
           /\ pc' = AfterStage(r.exc, "licensed")
           /\ IF Raised(r.exc)
              THEN UNCHANGED <<repo_license, license_filename>>
              ELSE /\ repo_license' = r.value[1]
                   /\ license_filename' = r.value[2]
    /\ UNCHANGED <<argv, tag_name, response, tree, tmpdir, cwd, sys_path, requirements,
                   distribution_info, requests_log, warnings_log, result, stdout,
                   exit_code, call, ret>>

\* line 204
GetRequirements ==
    /\ pc = "licensed"
    /\ LET r == get_requirements(tree)
       IN  /\ trace' = Started("get_requirements", ~Raised(r.exc))
           /\ exc' = r.exc
           /\ pc' = AfterStage(r.exc, "required")
           /\ IF Raised(r.exc) THEN UNCHANGED requirements ELSE requirements' = r.value
    /\ UNCHANGED <<argv, tag_name, response, tree, tmpdir, cwd, sys_path, repo_license,
                   license_filename, distribution_info, requests_log, warnings_log,
                   result, stdout, exit_code, call, ret>>

\* line 205
ParseSetupPy ==
    /\ pc = "required"
    /\ LET r == parse_setup_py(tree, cwd, sys_path)
       IN  /\ trace' = Started("parse_setup_py", ~Raised(r.exc))
           /\ exc' = r.exc
           /\ cwd' = r.cwd
           /\ sys_path' = r.sys_path
           /\ pc' = AfterStage(r.exc, "parsed")
           /\ IF Raised(r.exc) THEN UNCHANGED distribution_info ELSE distribution_info' = r.value
    /\ UNCHANGED <<argv, tag_name, response, tree, tmpdir, repo_license,
                   license_filename, requirements, requests_log, warnings_log,
                   result, stdout, exit_code, call, ret>>

MaintainerStatuses == {0, 200, 204, 403, 404, 500}
UrlStatuses == {0, 200, 204, 404}

\* line 214
ValidateMaintainers ==
    /\ pc = "parsed"
    /\ \E statuses \in [1..Len(argv.maintainers) -> MaintainerStatuses] :
         LET r == validate_maintainers(argv.maintainers, statuses)
         IN  /\ requests_log' = requests_log \o r.requests
             /\ trace' = Started("validate_maintainers", ~Raised(r.exc))
             /\ exc' = r.exc
             /\ pc' = AfterStage(r.exc, "maintainers_valid")
    /\ UNCHANGED <<argv, tag_name, response, tree, tmpdir, cwd, sys_path, repo_license,
                   license_filename, requirements, distribution_info, warnings_log,
                   result, stdout, exit_code, call, ret>>

\* line 215
ValidateUrls ==
    /\ pc = "maintainers_valid"
    /\ \E statuses \in [1..3 -> UrlStatuses] :
         LET urls == <<GithubUrl, distribution_info.url, argv.doc_url>>
             r == validate_urls(urls, statuses)
         IN  /\ requests_log' = requests_log \o r.requests
             /\ trace' = Started("validate_urls", ~Raised(r.exc))
             /\ exc' = r.exc
             /\ pc' = AfterStage(r.exc, "urls_valid")
    /\ UNCHANGED <<argv, tag_name, response, tree, tmpdir, cwd, sys_path, repo_license,
                   license_filename, requirements, distribution_info, warnings_log,
                   result, stdout, exit_code, call, ret>>

VersionWarning(version, tag) == [version |-> version, tag_name |-> tag]

\* lines 216-257: warn on a version mismatch, build the manifest and return it.  The
\* frame of make_meta_yaml goes away, and the TemporaryDirectory object with it: it
\* is finalized now or, on an interpreter that collects later, not yet.
Render ==
    /\ pc = "urls_valid"
    /\ warnings_log' =
         IF VersionMismatch(distribution_info.version, tag_name)
         THEN Append(warnings_log, VersionWarning(distribution_info.version, tag_name))
         ELSE warnings_log
    /\ result' = [returned |-> TRUE,
                  value |-> Manifest(tag_name, response.content, repo_license,
                                     license_filename, requirements, distribution_info,
                                     argv.maintainers, argv.doc_url)]
    /\ trace' = Started("render", TRUE)
    /\ \E collected \in BOOLEAN : tmpdir' = IF collected THEN Finalize(tmpdir) ELSE tmpdir
    /\ pc' = "returned"
    /\ UNCHANGED <<argv, tag_name, response, tree, cwd, sys_path, repo_license,
                   license_filename, requirements, distribution_info, exc, requests_log,
                   stdout, exit_code, call, ret>>

\* line 287
WriteStdout ==
    /\ pc = "returned"
    /\ stdout' = [written |-> TRUE, text |-> result.value]
    /\ pc' = "written"
    /\ UNCHANGED <<argv, tag_name, response, tree, tmpdir, cwd, sys_path, repo_license,
                   license_filename, requirements, distribution_info, exc, requests_log,
                   warnings_log, trace, result, exit_code, call, ret>>

\* The process ends: after cli() returned, or with the uncaught exception.  Until
\* here the traceback of a propagating exception keeps the frames, and so the
\* TemporaryDirectory object, alive; the exit runs the pending finalizers.
ProcessExit ==
    /\ pc \in {"written", "raised"}
    /\ exit_code' = IF pc = "raised" THEN "1" ELSE "0"
    /\ tmpdir' = Finalize(tmpdir)
    /\ pc' = "exited"
    /\ UNCHANGED <<argv, tag_name, response, tree, cwd, sys_path, repo_license,
                   license_filename, requirements, distribution_info, exc, requests_log,
                   warnings_log, trace, result, stdout, call, ret>>

Next ==
    \/ GetLatestRelease
    \/ DownloadTarGz
    \/ ExtractTarGz
    \/ ParseLicense
    \/ GetRequirements
    \/ ParseSetupPy
    \/ ValidateMaintainers
    \/ ValidateUrls
    \/ Render
    \/ WriteStdout
    \/ ProcessExit

Spec == Init /\ [][Next]_vars

(***************************************************************************)
(* Properties of the run.                                                  *)
(***************************************************************************)
StageOk(stage) == \E i \in 1..Len(trace) : trace[i].stage = stage /\ trace[i].ok
StageFailed(stage) == \E i \in 1..Len(trace) : trace[i].stage = stage /\ ~trace[i].ok
StageDone(stage) == \E i \in 1..Len(trace) : trace[i].stage = stage
SomeStageFailed == \E i \in 1..Len(trace) : ~trace[i].ok
ChecksBeforeRender == {StageOrder[i] : i \in 1..8}

\* C1: a manifest is returned, and written to standard output, only after release
\* lookup, download, extraction, parse_license, get_requirements, parse_setup_py,
\* validate_maintainers and validate_urls have all succeeded; once any of them has
\* failed the run is ending with that error, and no manifest is returned or written.
C1_AllOrNothing ==
    /\ result.returned =>
         /\ \A stage \in ChecksBeforeRender : StageOk(stage)
         /\ ~Raised(exc)
         /\ tag_name \in Tags /\ response.status_code = 200
         /\ repo_license # "None" /\ ~distribution_info.raises
    /\ stdout.written => result.returned /\ stdout.text = result.value
    /\ SomeStageFailed =>
         /\ pc \in {"raised", "exited"}
         /\ Raised(exc)
         /\ ~result.returned /\ ~stdout.written
         /\ exit_code # "0"
    /\ exit_code = "0" => stdout.written

C1_Witness == pc = "exited" /\ exit_code = "0" /\ stdout.written

\* C2: when the run has ended, on every path, the temporary directory that
\* extract_tar_gz created is no longer on disk: it was deleted if it was ever
\* created.
C2_TmpDirDeleted ==
    pc = "exited" =>
        /\ tmpdir # "ondisk"
        /\ StageDone("extract_tar_gz") => tmpdir = "deleted"

C2_Witness ==
    /\ pc = "exited" /\ exit_code = "1" /\ tmpdir = "deleted"
    /\ StageOk("extract_tar_gz")

C2_WitnessExtractionFailed ==
    pc = "exited" /\ tmpdir = "deleted" /\ StageFailed("extract_tar_gz")

\* C3: once parse_setup_py has finished, whether it returned a distribution or
\* raised, the working directory of the process is the one that was current before
\* the call.
C3_CwdRestored == StageDone("parse_setup_py") => cwd = InitialDir

\* C3, the part the code keeps: the working directory is restored when
\* parse_setup_py returns, and untouched when no setup file is found.
C3_CwdRestoredOnReturn == StageOk("parse_setup_py") => cwd = InitialDir

\* version occurs in tag as a contiguous run of characters
OccursIn(version, tag) ==
    \E i \in 1..(Len(tag) + 1) :
        /\ i + Len(version) - 1 <= Len(tag)
        /\ SubSeq(tag, i, i + Len(version) - 1) = version

\* C8: a version that does not match the tag never aborts the run: once the eight
\* stages before rendering have succeeded the run raises nothing and returns the
\* manifest, and one version-mismatch warning is emitted exactly when the version
\* is not a substring of the tag name (none in any other case).
C8_MismatchOnlyWarns ==
    /\ (\A stage \in ChecksBeforeRender : StageOk(stage)) =>
         /\ ~Raised(exc) /\ pc # "raised"
         /\ pc # "urls_valid" => result.returned
    /\ result.returned =>
         warnings_log =
            IF OccursIn(distribution_info.version, tag_name)
            THEN << >>
            ELSE <<VersionWarning(distribution_info.version, tag_name)>>
    /\ ~result.returned => warnings_log = << >>

C8_Witness ==
    /\ result.returned /\ Len(warnings_log) = 1
    /\ pc = "exited" /\ exit_code = "0"

C8_WitnessMatching ==
    result.returned /\ warnings_log = << >> /\ distribution_info.version # tag_name

RequestRank(r) ==
    CASE r.to = "releases/latest" -> 1
      [] r.to = "archive" -> 2
      [] r.to = "users" -> 3
      [] r.to = "url" -> 4

RequestsTo(to) == SelectSeq(requests_log, LAMBDA r : r.to = to)

\* C10: the stages run in the order release lookup, download, extraction, license,
\* requirements, build metadata, maintainers, URLs, render; each starts only after
\* all earlier ones succeeded, none runs twice, nothing runs after a failure, and no
\* maintainer or URL request is issued unless every stage up to parse_setup_py
\* succeeded.  The release and the archive are requested at most once.
C10_StrictOrder ==
    /\ Len(trace) <= Len(StageOrder)
    /\ \A i \in 1..Len(trace) : trace[i].stage = StageOrder[i]
    /\ \A i \in 1..(Len(trace) - 1) : trace[i].ok
    /\ \A i, j \in 1..Len(requests_log) :
         i < j => RequestRank(requests_log[i]) <= RequestRank(requests_log[j])
    /\ Len(RequestsTo("releases/latest")) <= 1
    /\ Len(RequestsTo("archive")) <= 1
    /\ Len(RequestsTo("users")) <= Len(argv.maintainers)
    /\ Len(RequestsTo("url")) <= 3
    /\ Len(RequestsTo("users")) > 0 => \A i \in 1..6 : StageOk(StageOrder[i])
    /\ Len(RequestsTo("url")) > 0 => \A i \in 1..7 : StageOk(StageOrder[i])
    /\ SomeStageFailed => pc \in {"raised", "exited"}

C10_Witness ==
    /\ pc = "exited" /\ StageFailed("parse_setup_py")
    /\ Len(RequestsTo("users")) = 0 /\ Len(RequestsTo("url")) = 0

C10_WitnessComplete == Len(trace) = Len(StageOrder) /\ Len(RequestsTo("url")) = 3

(***************************************************************************)
(* Direct calls of one function on generated inputs.  The run is left at   *)
(* its start; call holds the arguments and ret what came back.             *)
(***************************************************************************)
Idle ==
    /\ pc = "call"
    /\ argv = [maintainers |-> << >>, doc_url |-> ""]
    /\ tag_name = None
    /\ response = NoResponse
    /\ tree = << >>
    /\ tmpdir = "absent"
    /\ cwd = InitialDir
    /\ sys_path = <<"site-packages">>
    /\ repo_license = "None"
    /\ license_filename = None
    /\ requirements = << >>
    /\ distribution_info = NoDistribution
    /\ exc = NoExc
    /\ requests_log = << >>
    /\ warnings_log = << >>
    /\ trace = << >>
    /\ result = NotReturned
    /\ stdout = NotWritten
    /\ exit_code = "running"
    /\ ret = NoRet

(*------------------------- parse_license --------------------------------*)
LicenseWords ==
    {<<"M","I","T"," ">>, <<"m","i","t"," ">>, <<"A","p","a","c","h","e"," ">>, <<"G","N","U"," ">>, <<"g","n","u"," ">>, <<"B","S","D"," ","3","-">>, <<"L","I","M","I","T","E","D"," ">>}

LicenseTexts == {Concat(ws) : ws \in SeqsUpTo(LicenseWords, MaxWords)}

Decoy == File(<<"L","I","C","E","N","S","E">>, <<"G","N","U"," ","G","N","U"," ","G","N","U"," ","G","N","U"," ","G","N","U">>)
Plain == File(<<"R","E","A","D","M","E",".","m","d">>, <<"M","I","T"," ","a","p","a","c","h","e">>)

LicenseShapes == {"top", "nested", "first_of_two", "before_other_dir", "absent"}

\* a tree in which the first license-named file of the walk, if any, holds text
LicenseTree(shape, text) ==
    CASE shape = "top" ->
           <<Dir(TmpRoot, << >>), Dir(PkgRoot, <<Plain, File(<<"L","I","C","E","N","S","E">>, text)>>)>>
      [] shape = "nested" ->
           <<Dir(TmpRoot, << >>), Dir(PkgRoot, <<Plain>>),
             Dir(DocsRoot, <<File(<<"L","i","c","e","n","s","e",".","t","x","t">>, text)>>)>>
      [] shape = "first_of_two" ->
           <<Dir(TmpRoot, << >>),
             Dir(PkgRoot, <<File(<<"U","N","L","I","C","E","N","S","E",".","m","d">>, text), Plain, Decoy>>)>>
      [] shape = "before_other_dir" ->
           <<Dir(TmpRoot, <<Plain>>), Dir(PkgRoot, <<File(<<"l","i","c","e","n","s","e">>, text)>>),
             Dir(DocsRoot, <<Decoy>>)>>
      [] shape = "absent" ->
           <<Dir(TmpRoot, << >>), Dir(PkgRoot, <<File(<<"C","O","P","Y","I","N","G">>, text), Plain>>)>>

InitLicense ==
    /\ Idle
    /\ call \in {[fn |-> "parse_license", shape |-> sh, text |-> t,
                  walk |-> LicenseTree(sh, t)] : sh \in LicenseShapes, t \in LicenseTexts}

CallParseLicense ==
    /\ call.fn = "parse_license" /\ ~ret.done
    /\ ret' = [done |-> TRUE, out |-> parse_license(call.walk)]
    /\ UNCHANGED <<pipeline_vars, call>>

NextLicense == CallParseLicense

SpecLicense == InitLicense /\ [][NextLicense]_vars

(*------------------------ get_requirements ------------------------------*)
ReqChars == {"a", "=", "\n"}
ReqTexts == SeqsUpTo(ReqChars, MaxReqLen)
ReqShapes == {"top", "nested", "absent"}

RequirementsTree(shape, text) ==
    CASE shape = "top" ->
           <<Dir(TmpRoot, << >>),
             Dir(PkgRoot, <<Plain, File(<<"r","e","q","u","i","r","e","m","e","n","t","s",".","t","x","t">>, text)>>)>>
      [] shape = "nested" ->
           <<Dir(TmpRoot, << >>), Dir(PkgRoot, <<Plain>>),
             Dir(DocsRoot, <<File(<<"R","e","q","u","i","r","e","m","e","n","t","s","-","d","e","v",".","t","x","t">>, text),
                             File(<<"r","e","q","u","i","r","e","m","e","n","t","s",".","t","x","t">>, <<"z","z","z">>)>>)>>
      [] shape = "absent" ->
           <<Dir(TmpRoot, << >>), Dir(PkgRoot, <<File(<<"d","e","p","s",".","t","x","t">>, text), Plain>>)>>

InitRequirements ==
    /\ Idle
    /\ call \in {[fn |-> "get_requirements", shape |-> sh, text |-> t,
                  walk |-> RequirementsTree(sh, t)] : sh \in ReqShapes, t \in ReqTexts}

\* lines 204 and 235-238: read the requirements and put them into the recipe
CallGetRequirements ==
    /\ call.fn = "get_requirements" /\ ~ret.done
    /\ LET r == get_requirements(call.walk)
       IN  ret' = IF Raised(r.exc)
                  THEN [done |-> TRUE, out |-> r]
                  ELSE [done |-> TRUE, out |-> r, section |-> RequirementsSection(r.value)]
    /\ UNCHANGED <<pipeline_vars, call>>

NextRequirements == CallGetRequirements

SpecRequirements == InitRequirements /\ [][NextRequirements]_vars

(*---------------------- validate_maintainers ----------------------------*)
Handles == {<<"b","o","b">>, <<"u","4","0","4">>, <<"x","4","0">>}

InitMaintainers ==
    /\ Idle
    /\ call \in {[fn |-> "validate_maintainers", maintainers |-> m] :
                    m \in SeqsUpTo(Handles, MaxMaintainers)}

CallValidateMaintainers ==
    /\ call.fn = "validate_maintainers" /\ ~ret.done
    /\ \E statuses \in [1..Len(call.maintainers) -> MaintainerStatuses] :
         ret' = [done |-> TRUE, statuses |-> statuses,
                 out |-> validate_maintainers(call.maintainers, statuses)]
    /\ UNCHANGED <<pipeline_vars, call>>

NextMaintainers == CallValidateMaintainers

SpecMaintainers == InitMaintainers /\ [][NextMaintainers]_vars

(*-------------------------- validate_urls -------------------------------*)
Urls == {"", "https://a.example", "https://b.example"}

InitUrls ==
    /\ Idle
    /\ call \in {[fn |-> "validate_urls", urls |-> u] : u \in SeqsUpTo(Urls, MaxUrls)}

CallValidateUrls ==
    /\ call.fn = "validate_urls" /\ ~ret.done
    /\ \E statuses \in [1..Len(call.urls) -> UrlStatuses] :
         ret' = [done |-> TRUE, statuses |-> statuses,
                 out |-> validate_urls(call.urls, statuses)]
    /\ UNCHANGED <<pipeline_vars, call>>

NextUrls == CallValidateUrls

SpecUrls == InitUrls /\ [][NextUrls]_vars

(***************************************************************************)
(* Properties of the single functions.                                     *)
(***************************************************************************)
SameLetter(a, b) == Lower(<<a>>) = Lower(<<b>>)

\* the number of places of text where keyword stands, letter case respected or not
Occurrences(keyword, text, anycase) ==
    Cardinality({i \in 1..Len(text) :
        /\ i + Len(keyword) - 1 <= Len(text)
        /\ \A k \in 1..Len(keyword) :
             IF anycase THEN SameLetter(text[i + k - 1], keyword[k])
             ELSE text[i + k - 1] = keyword[k]})

KeywordCounts(text) ==
    <<Occurrences(<<"M","I","T">>, text, FALSE), Occurrences(<<"a","p","a","c","h","e">>, text, TRUE),
      Occurrences(<<"G","N","U">>, text, FALSE), Occurrences(<<"b","s","d"," ","3">>, text, TRUE)>>

AllZero(counts) == \A j \in 1..4 : counts[j] = 0

HasLicenseFile(walk) ==
    \E d \in 1..Len(walk) : \E f \in 1..Len(walk[d].files) :
        Occurrences(<<"l","i","c","e","n","s","e">>, walk[d].files[f].name, TRUE) > 0

\* C4: when the counts of the four keywords in the license file are not all zero,
\* parse_license returns the identifier with the highest count, the first one in the
\* order MIT, Apache-2.0, GPL-2.0-or-later, BSD-3-Clause among equals, and that
\* identifier has a count of at least 1.
C4_HighestCountFirstWins ==
    (ret.done /\ HasLicenseFile(call.walk) /\ ~AllZero(KeywordCounts(call.text))) =>
        /\ ~Raised(ret.out.exc)
        /\ \E k \in 1..4 :
             LET counts == KeywordCounts(call.text)
             IN  /\ ret.out.value[1] = LicenseKeys[k]
                 /\ counts[k] >= 1
                 /\ \A j \in 1..4 : counts[j] <= counts[k]
                 /\ \A j \in 1..(k - 1) : counts[j] < counts[k]

C4_Witness ==
    /\ ret.done /\ HasLicenseFile(call.walk)
    /\ LET counts == KeywordCounts(call.text)
       IN  counts[2] = counts[3] /\ counts[2] > counts[1] /\ counts[2] > counts[4]
    /\ ret.out.value[1] = "Apache-2.0"

\* C5: parse_license fails in two ways a caller can tell apart: with the not-found
\* error when no file of the tree has "license" in its name, whatever its case, and
\* with a different error, the one that lists the identifiers looked for, when the
\* license file holds none of the four keywords; neither returns a pair.
C5_TwoFailures ==
    ret.done =>
        /\ ~HasLicenseFile(call.walk) =>
             /\ ret.out.exc = LicenseNotFound
             /\ "value" \notin DOMAIN ret.out
        /\ (HasLicenseFile(call.walk) /\ AllZero(KeywordCounts(call.text))) =>
             /\ Raised(ret.out.exc)
             /\ ret.out.exc.msg = "Could not find a license in"
             /\ ret.out.exc.msg # LicenseNotFound.msg
             /\ ret.out.exc.looked_for = LicenseKeys
             /\ "value" \notin DOMAIN ret.out
        /\ Raised(ret.out.exc) =>
             \/ ~HasLicenseFile(call.walk)
             \/ AllZero(KeywordCounts(call.text))

C5_Witness ==
    /\ ret.done /\ HasLicenseFile(call.walk) /\ call.text # << >>
    /\ Raised(ret.out.exc) /\ ret.out.exc # LicenseNotFound

C5_WitnessNotFound == ret.done /\ ret.out.exc = LicenseNotFound /\ call.text = <<"M","I","T"," ">>

Failing(statuses) == {i \in DOMAIN statuses : statuses[i] = 0 \/ IsErrorStatus(statuses[i])}
Least(set) == CHOOSE i \in set : \A j \in set : i <= j

\* C6: validate_maintainers raises the maintainer-not-found error if and only if the
\* status of the lookup is 404; any other error status comes out as the original
\* HTTP error, whatever the handle contains; a success status raises nothing; it
\* stops at the first failing handle and queries no later one.
C6_NotFoundIff404 ==
    ret.done =>
        LET bad == Failing(ret.statuses)
        IN  IF bad = {}
            THEN /\ ~Raised(ret.out.exc)
                 /\ ret.out.requests =
                      [i \in 1..Len(call.maintainers) |-> UserRequest(call.maintainers[i])]
            ELSE LET k == Least(bad)
                 IN  /\ ret.out.requests =
                          [i \in 1..k |-> UserRequest(call.maintainers[i])]
                     /\ Raised(ret.out.exc)
                     /\ ret.statuses[k] = 404 <=>
                          (ret.out.exc.type = "ValueError"
                           /\ ret.out.exc.msg = "could not be found as a GitHub user")
                     /\ ret.statuses[k] \in {403, 500} =>
                          (ret.out.exc.type = "HTTPError"
                           /\ ret.out.exc.status = ret.statuses[k])

\* C6, for handles that do not make "404" appear in the text of the HTTP error
C6_NotFoundIff404PlainHandles ==
    (\A i \in 1..Len(call.maintainers) : ~OccursIn(<<"4","0","4">>, call.maintainers[i]))
        => C6_NotFoundIff404

NonEmpty(urls) == {i \in 1..Len(urls) : urls[i] # ""}
BadUrls(urls, statuses) == {i \in NonEmpty(urls) : statuses[i] # 200}
RequestedUrls(urls, last) ==
    SelectSeq([i \in 1..last |-> UrlRequest(urls[i])], LAMBDA r : r.arg # "")

\* C7: validate_urls goes through the list in order; an empty entry causes no
\* request and no failure; a non-empty entry causes one GET, and a status other
\* than 200 raises an error naming that URL and status, after which no later entry
\* is requested.  It returns without error exactly when every non-empty entry
\* answered 200.
C7_UrlsFailFast ==
    ret.done =>
        LET bad == BadUrls(call.urls, ret.statuses)
        IN  /\ ~Raised(ret.out.exc) <=> bad = {}
            /\ bad = {} => ret.out.requests = RequestedUrls(call.urls, Len(call.urls))
            /\ bad # {} =>
                 LET k == Least(bad)
                 IN  /\ ret.out.requests = RequestedUrls(call.urls, k)
                     /\ ret.statuses[k] # 0 =>
                          /\ ret.out.exc.type = "ValueError"
                          /\ ret.out.exc.url = call.urls[k]
                          /\ ret.out.exc.status = ret.statuses[k]
                     /\ ret.statuses[k] = 0 => ret.out.exc = ConnectionError

C7_Witness ==
    /\ ret.done /\ Len(call.urls) = 3
    /\ call.urls[1] = "" /\ call.urls[2] # "" /\ call.urls[3] # ""
    /\ ret.statuses[2] = 204
    /\ Len(ret.out.requests) = 1 /\ Raised(ret.out.exc)

C7_WitnessAllGood ==
    /\ ret.done /\ Len(call.urls) = 3 /\ call.urls[2] = ""
    /\ Len(ret.out.requests) = 2 /\ ~Raised(ret.out.exc)

NewLines(text) == Cardinality({i \in 1..Len(text) : text[i] = "\n"})

RECURSIVE JoinLines(_)
JoinLines(lines) ==
    IF lines = << >> THEN << >>
    ELSE IF Len(lines) = 1 THEN lines[1]
    ELSE lines[1] \o <<"\n">> \o JoinLines(Tail(lines))

WithoutLastNewLine(text) ==
    IF text # << >> /\ text[Len(text)] = "\n" THEN SubSeq(text, 1, Len(text) - 1) ELSE text

\* lines are the lines of text, in order and unmodified, blank ones included
IsLinesOf(lines, text) ==
    /\ \A i \in 1..Len(lines) : NewLines(lines[i]) = 0
    /\ JoinLines(lines) = WithoutLastNewLine(text)
    /\ Len(lines) = NewLines(text)
                    + (IF text # << >> /\ text[Len(text)] # "\n" THEN 1 ELSE 0)

Python == <<"p","y","t","h","o","n">>
Pip == <<"p","i","p">>

\* C9: the host list and the run list of the manifest both begin with python, pip
\* and go on with exactly the lines of the requirements file, in file order and
\* unmodified, blank lines kept as empty strings.
C9_BothListsPythonPip ==
    (ret.done /\ ~Raised(ret.out.exc)) =>
        /\ Len(ret.section.host) >= 2 /\ Len(ret.section.run) >= 2
        /\ SubSeq(ret.section.host, 1, 2) = <<Python, Pip>>
        /\ SubSeq(ret.section.run, 1, 2) = <<Python, Pip>>
        /\ IsLinesOf(SubSeq(ret.section.host, 3, Len(ret.section.host)), call.text)
        /\ IsLinesOf(SubSeq(ret.section.run, 3, Len(ret.section.run)), call.text)

\* C9 as the code has it: the host list begins with python, pip and the run list
\* with python alone; both go on with exactly the lines of the requirements file,
\* in file order and unmodified, blank lines kept as empty strings, so the two lists
\* carry the same requirements.
C9_HostPythonPipRunPython ==
    (ret.done /\ ~Raised(ret.out.exc)) =>
        /\ Len(ret.section.host) >= 2 /\ Len(ret.section.run) >= 1
        /\ SubSeq(ret.section.host, 1, 2) = <<Python, Pip>>
        /\ ret.section.run[1] = Python
        /\ IsLinesOf(SubSeq(ret.section.host, 3, Len(ret.section.host)), call.text)
        /\ IsLinesOf(SubSeq(ret.section.run, 2, Len(ret.section.run)), call.text)
        /\ SubSeq(ret.section.host, 3, Len(ret.section.host))
             = SubSeq(ret.section.run, 2, Len(ret.section.run))

C9_Witness ==
    /\ ret.done /\ ~Raised(ret.out.exc)
    /\ call.text = <<"a", "\n", "\n", "=">>
    /\ ret.section.run = <<Python, <<"a">>, << >>, <<"=">>>>

====
